---------------------------- MODULE Spec2Model ----------------------------
(***************************************************************************)
(* A model of gosecurityheaders (src/main.go): the command-line program    *)
(* that fetches the response headers of a list of URLs and reports which   *)
(* of six security headers are present.                                    *)
(*                                                                         *)
(* Strings on which the code does character work (URLs, header names,      *)
(* the bytes of the input file) are sequences of one-character strings.    *)
(* A Go map is a TLA+ function; ranging over a Go map visits its keys in   *)
(* an order the runtime chooses, so every such loop picks an order.        *)
(***************************************************************************)
EXTENDS Integers, Sequences, FiniteSets, TLC

(***************************************************************************)
(* Bounds of the model.                                                    *)
(***************************************************************************)
\* most positional URLs on the command line
MaxArgs == 1
\* most bytes in an input file whose content is enumerated byte by byte
MaxData == 4
\* most header lines in a response whose lines are enumerated one by one
MaxFields == 2
\* most pieces a positional URL is put together from (see FetchURLs)
MaxPieces == 2

(***************************************************************************)
(* Characters and strings.                                                 *)
(***************************************************************************)
UpperChars ==
    <<"A", "B", "C", "D", "E", "F", "G", "H", "I", "J", "K", "L", "M",
      "N", "O", "P", "Q", "R", "S", "T", "U", "V", "W", "X", "Y", "Z">>

LowerChars ==
    <<"a", "b", "c", "d", "e", "f", "g", "h", "i", "j", "k", "l", "m",
      "n", "o", "p", "q", "r", "s", "t", "u", "v", "w", "x", "y", "z">>

UpperSet == {UpperChars[k] : k \in 1..26}

LowerSet == {LowerChars[k] : k \in 1..26}

\* each upper-case letter's lower-case letter, and the other way round
LowerOf == [c \in UpperSet |-> LowerChars[CHOOSE k \in 1..26 : UpperChars[k] = c]]

UpperOf == [c \in LowerSet |-> UpperChars[CHOOSE k \in 1..26 : LowerChars[k] = c]]

IsUpper(c) == c \in UpperSet

IsLower(c) == c \in LowerSet

ToLowerChar(c) == IF IsUpper(c) THEN LowerOf[c] ELSE c

ToUpperChar(c) == IF IsLower(c) THEN UpperOf[c] ELSE c

\* strings.HasPrefix
HasPrefix(s, prefix) ==
    /\ Len(s) >= Len(prefix)
    /\ SubSeq(s, 1, Len(prefix)) = prefix

\* unicode.IsSpace on the bytes an input file can hold
IsSpace(c) == c \in {" ", "\t", "\n", "\r", "\f"}

\* the sequences over S of length at most n
SeqUpTo(S, n) == UNION {[1..k -> S] : k \in 0..n}

\* the orders in which a loop over a Go map with key set S can visit the keys
Orders(S) ==
    {o \in [1..Cardinality(S) -> S] :
        \A a, b \in 1..Cardinality(S) : a # b => o[a] # o[b]}

\* the elements of a sequence
Range(s) == {s[k] : k \in 1..Len(s)}

(***************************************************************************)
(* requiredHeaders, and the literals of the program.                       *)
(***************************************************************************)
CSP == <<"C", "o", "n", "t", "e", "n", "t", "-", "S", "e", "c", "u", "r", "i", "t", "y", "-", "P", "o", "l", "i", "c", "y">>

HSTS == <<"S", "t", "r", "i", "c", "t", "-", "T", "r", "a", "n", "s", "p", "o", "r", "t", "-", "S", "e", "c", "u", "r", "i", "t", "y">>

XFO == <<"X", "-", "F", "r", "a", "m", "e", "-", "O", "p", "t", "i", "o", "n", "s">>

XCTO == <<"X", "-", "C", "o", "n", "t", "e", "n", "t", "-", "T", "y", "p", "e", "-", "O", "p", "t", "i", "o", "n", "s">>

RP == <<"R", "e", "f", "e", "r", "r", "e", "r", "-", "P", "o", "l", "i", "c", "y">>

PP == <<"P", "e", "r", "m", "i", "s", "s", "i", "o", "n", "s", "-", "P", "o", "l", "i", "c", "y">>

requiredHeaders == <<CSP, HSTS, XFO, XCTO, RP, PP>>

HttpPrefix == <<"h", "t", "t", "p", ":", "/", "/">>

HttpsPrefix == <<"h", "t", "t", "p", "s", ":", "/", "/">>


(***************************************************************************)
(* net/http, as far as fetchHeaders sees it.  A response on the wire is a  *)
(* sequence of header lines [name, value]; the client hands the program    *)
(* an http.Header, a map from the canonical form of each name to the       *)
(* values sent under it.                                                   *)
(***************************************************************************)
\* the bytes a header name is made of
IsTokenChar(c) == IsUpper(c) \/ IsLower(c) \/ c \in {"-", "_", "0", "1"}

\* textproto.CanonicalMIMEHeaderKey: the first letter and every letter after
\* a dash in upper case, the others in lower case; a name that holds another
\* byte than a token byte is left as it is
CanonicalMIMEHeaderKey(s) ==
    IF \E k \in 1..Len(s) : ~IsTokenChar(s[k])
    THEN s
    ELSE [k \in 1..Len(s) |->
            IF k = 1 \/ s[k - 1] = "-"
            THEN ToUpperChar(s[k])
            ELSE ToLowerChar(s[k])]

\* resp.Header of a response with these header lines
ResponseHeader(lines) ==
    [key \in {CanonicalMIMEHeaderKey(lines[k].name) : k \in 1..Len(lines)} |->
        LET under == SelectSeq(lines,
                        LAMBDA l : CanonicalMIMEHeaderKey(l.name) = key)
        IN  [k \in 1..Len(under) |-> under[k].value]]

(***************************************************************************)
(* The functions of main.go.                                               *)
(***************************************************************************)
\* RequestURL with a test for "http" where the code tests for the two
\* prefixes
RequestURLHttpOnly(url) ==
    IF ~HasPrefix(url, <<"h", "t", "t", "p">>)
    THEN HttpPrefix \o url
    ELSE url

\* fetchHeaders, lines 38-40: the URL handed to client.Get
RequestURL(url) ==
    IF ~HasPrefix(url, HttpPrefix) /\ ~HasPrefix(url, HttpsPrefix)
    THEN HttpPrefix \o url
    ELSE url

\* checkHeaders with a test of the first value (headers.Get(header) != "")
\* where the code tests for the key
checkHeadersByValue(headers) ==
    [header \in Range(requiredHeaders) |->
        header \in DOMAIN headers /\ headers[header][1] # ""]

\* checkHeaders: for each required header, whether the map has it as a key
checkHeaders(headers) ==
    LET keys == DOMAIN headers
    IN  [header \in Range(requiredHeaders) |-> header \in keys]

\* displayResults: the block printed for one URL.  Its six lines come out in
\* the order of a loop over the map, so the block is the set of its lines.
displayResults(url, results) ==
    [kind  |-> "results",
     url   |-> url,
     lines |-> {<<header, IF results[header] THEN "Present" ELSE "Missing">> :
                    header \in DOMAIN results}]

\* main, lines 172-177: the lists missingHeaders a loop over the map results
\* can build, one for each order in which the missing keys are visited
missingHeadersOf(results) ==
    Orders({header \in DOMAIN results : ~results[header]})

\* csvRow with the booleans written as they are
csvRowBooleans(url, headers) ==
    <<url>> \o [k \in 1..Len(requiredHeaders) |->
                    IF headers[requiredHeaders[k]] THEN "true" ELSE "false"]

\* writeResultsToCSV, lines 92-99: the row of one URL
csvRow(url, headers) ==
    <<url>> \o [k \in 1..Len(requiredHeaders) |->
                    IF headers[requiredHeaders[k]] THEN "Present" ELSE "Missing"]

\* writeResultsToCSV, line 85: the header row
csvHeader == <<"URL">> \o requiredHeaders

\* strings.Split(s, "\n")
RECURSIVE SplitLines(_)
SplitLines(s) ==
    IF \A k \in 1..Len(s) : s[k] # "\n"
    THEN <<s>>
    ELSE LET k == CHOOSE j \in 1..Len(s) :
                    s[j] = "\n" /\ \A m \in 1..(j - 1) : s[m] # "\n"
         IN  <<SubSeq(s, 1, k - 1)>> \o SplitLines(SubSeq(s, k + 1, Len(s)))

\* TrimSpace that strips the front only (strings.TrimLeft)
RECURSIVE TrimSpaceLeft(_)
TrimSpaceLeft(s) ==
    IF s = <<>> THEN s
    ELSE IF IsSpace(s[1]) THEN TrimSpaceLeft(Tail(s))
    ELSE s

\* strings.TrimSpace
RECURSIVE TrimSpace(_)
TrimSpace(s) ==
    IF s = <<>> THEN s
    ELSE IF IsSpace(s[1]) THEN TrimSpace(Tail(s))
    ELSE IF IsSpace(s[Len(s)]) THEN TrimSpace(SubSeq(s, 1, Len(s) - 1))
    ELSE s

\* readURLsFromFile, lines 115-123, on the bytes of a file that was read
RECURSIVE trimmedLines(_)
trimmedLines(lines) ==
    IF lines = <<>> THEN <<>>
    ELSE LET trimmed == TrimSpace(Head(lines))
         IN  (IF trimmed # <<>> THEN <<trimmed>> ELSE <<>>)
                \o trimmedLines(Tail(lines))

readURLsFromFile(data) == trimmedLines(SplitLines(data))

\* resultsForCSV[url] = results
MapPut(m, key, value) ==
    [x \in (DOMAIN m) \cup {key} |-> IF x = key THEN value ELSE m[x]]

(***************************************************************************)
(* The inputs the model runs the program on.                               *)
(***************************************************************************)
\* positional URLs of the runs of the whole program
ArgURLs == {<<"a">>, HttpsPrefix \o <<"b">>}

\* contents of the input file in the runs of the whole program
MainFiles ==
    {<<" ", "\n">>,
     <<"b", "\r", "\n">>,
     <<" ", "a", "\n", "\n", "c", " ">>}

\* contents of the input file enumerated byte by byte
AllFiles == SeqUpTo({"a", "b", " ", "\n"}, MaxData)

\* the pieces a positional URL is put together from when fetchHeaders is
\* looked at alone
URLPieces ==
    {HttpPrefix, HttpsPrefix, <<"H", "T", "T", "P", ":", "/", "/">>,
     <<"h", "t", "t", "p", ":", "/">>, <<"h", "t", "t", "p", "s">>,
     <<"a">>, <<"/">>}

RECURSIVE Concat(_)
Concat(pieces) ==
    IF pieces = <<>> THEN <<>> ELSE Head(pieces) \o Concat(Tail(pieces))

FetchURLs == {Concat(pieces) : pieces \in SeqUpTo(URLPieces, MaxPieces)}

\* header lines of a response
Line(name, value) == [name |-> name, value |-> value]

\* the responses of the servers in the runs of the whole program: all six
\* headers, five of them, and four (with names in other cases, an
\* empty value, a repeated header and headers the program does not ask for)
MainResponses ==
    {<<Line(CSP, "v"), Line(HSTS, "v"), Line(XFO, "v"),
       Line(XCTO, "v"), Line(RP, "v"), Line(PP, "")>>,
     <<Line(<<"c", "o", "n", "t", "e", "n", "t", "-", "s", "e", "c", "u", "r", "i", "t", "y", "-", "p", "o", "l", "i", "c", "y">>, "v"),
       Line(HSTS, "v"), Line(XFO, "v"), Line(XFO, "w"),
       Line(XCTO, "v"), Line(RP, "v")>>,
     <<Line(<<"S", "e", "r", "v", "e", "r">>, "v"),
       Line(HSTS, "v"), Line(XCTO, ""), Line(RP, "v"), Line(PP, "v")>>}

\* header names of the responses enumerated line by line
WireNames ==
    {CSP,
     <<"c", "o", "n", "t", "e", "n", "t", "-", "s", "e", "c", "u", "r", "i", "t", "y", "-", "p", "o", "l", "i", "c", "y">>,
     <<"S", "T", "R", "I", "C", "T", "-", "T", "R", "A", "N", "S", "P", "O", "R", "T", "-", "S", "E", "C", "U", "R", "I", "T", "Y">>,
     XFO,
     <<"x", "-", "f", "r", "a", "m", "e", "-", "o", "p", "t", "i", "o", "n", "s">>,
     <<"X", "-", "c", "o", "n", "t", "e", "n", "t", "-", "t", "y", "p", "e", "-", "O", "P", "T", "I", "O", "N", "S">>,
     <<"r", "e", "f", "e", "r", "r", "e", "r", "-", "p", "o", "l", "i", "c", "y">>,
     <<"p", "e", "r", "m", "i", "s", "s", "i", "o", "n", "s", "-", "P", "o", "l", "i", "c", "y">>,
     <<"S", "e", "r", "v", "e", "r">>,
     <<"X", "-", "F", "r", "a", "m", "e", "-", "O", "p", "t", "i", "o", "n">>,
     <<"X", "_", "F", "r", "a", "m", "e", "_", "O", "p", "t", "i", "o", "n", "s">>}

AllResponses ==
    SeqUpTo({Line(name, value) : name \in WireNames, value \in {"", "v"}},
            MaxFields)

(***************************************************************************)
(* The state of a run.                                                     *)
(***************************************************************************)
VARIABLES
    pc,             \* where main is: "input", "check", "loop", "export", "exit"
    args,           \* flag.Args()
    missingOnly,    \* --missing
    skipSSL,        \* --skip-ssl
    outputFile,     \* --output
    inputFile,      \* --input
    fileData,       \* what ioutil.ReadFile returned, once the file was read
    urls,           \* main's urls
    client,         \* the HTTP client, once configured
    i,              \* the index of the loop over urls (from 1)
    resultsForCSV,  \* main's resultsForCSV
    requests,       \* the calls of client.Get so far, each with its outcome
    stdout,         \* what was printed
    logs,           \* what was logged
    csvFile,        \* the file at the --output path
    exitCode        \* the exit status, -1 while the program runs

vars ==
    <<pc, args, missingOnly, skipSSL, outputFile, inputFile, fileData, urls,
      client, i, resultsForCSV, requests, stdout, logs, csvFile, exitCode>>

flags == <<args, missingOnly, skipSSL, outputFile, inputFile>>

\* the state after flag.Parse and line 135, for these positional URLs
InitWith(Args) ==
    /\ pc = "input"
    /\ args \in Args
    /\ missingOnly \in BOOLEAN
    /\ skipSSL \in BOOLEAN
    /\ outputFile \in {"", "out.csv"}
    /\ inputFile \in {"", "urls.txt"}
    /\ fileData = [read |-> FALSE, data |-> <<>>]
    /\ urls = args
    /\ client = [configured |-> FALSE, InsecureSkipVerify |-> FALSE]
    /\ i = 0
    /\ resultsForCSV = <<>>
    /\ requests = <<>>
    /\ stdout = <<>>
    /\ logs = <<>>
    /\ csvFile = [exists |-> FALSE, complete |-> FALSE, rows |-> <<>>]
    /\ exitCode = -1

Init == InitWith(SeqUpTo(ArgURLs, MaxArgs))

(***************************************************************************)
(* main, lines 138-144: the input file.                                    *)
(***************************************************************************)
SkipInput ==
    /\ pc = "input"
    /\ inputFile = ""
    /\ pc' = "check"
    /\ UNCHANGED <<flags, fileData, urls, client, i, resultsForCSV, requests,
                   stdout, logs, csvFile, exitCode>>

ReadURLs(Files) ==
    /\ pc = "input"
    /\ inputFile # ""
    /\ \E data \in Files :
        /\ fileData' = [read |-> TRUE, data |-> data]
        /\ urls' = urls \o readURLsFromFile(data)
    /\ pc' = "check"
    /\ UNCHANGED <<flags, client, i, resultsForCSV, requests, stdout, logs,
                   csvFile, exitCode>>

\* ReadURLsFatal with log.Printf where the code has log.Fatalf
ReadURLsLogged ==
    /\ pc = "input"
    /\ inputFile # ""
    /\ logs' = Append(logs, [kind |-> "Error reading URLs from file"])
    /\ pc' = "check"
    /\ UNCHANGED <<flags, fileData, urls, client, i, resultsForCSV, requests,
                   stdout, csvFile, exitCode>>

ReadURLsFatal ==
    /\ pc = "input"
    /\ inputFile # ""
    /\ logs' = Append(logs, [kind |-> "Error reading URLs from file"])
    /\ exitCode' = 1
    /\ pc' = "exit"
    /\ UNCHANGED <<flags, fileData, urls, client, i, resultsForCSV, requests,
                   stdout, csvFile>>

(***************************************************************************)
(* main, lines 146-155: the usage exit, or the client.                     *)
(***************************************************************************)
\* Usage without the os.Exit(1): main goes on into the loop
UsageNoExit ==
    /\ pc = "check"
    /\ Len(urls) = 0
    /\ stdout' = Append(stdout, [kind |-> "Usage"])
    /\ client' = [configured |-> TRUE, InsecureSkipVerify |-> skipSSL]
    /\ i' = 1
    /\ pc' = "loop"
    /\ UNCHANGED <<flags, fileData, urls, resultsForCSV, requests, logs,
                   csvFile, exitCode>>

Usage ==
    /\ pc = "check"
    /\ Len(urls) = 0
    /\ stdout' = Append(stdout, [kind |-> "Usage"])
    /\ exitCode' = 1
    /\ pc' = "exit"
    /\ UNCHANGED <<flags, fileData, urls, client, i, resultsForCSV, requests,
                   logs, csvFile>>

ConfigureClient ==
    /\ pc = "check"
    /\ Len(urls) # 0
    /\ client' = [configured |-> TRUE, InsecureSkipVerify |-> skipSSL]
    /\ i' = 1
    /\ pc' = "loop"
    /\ UNCHANGED <<flags, fileData, urls, resultsForCSV, requests, stdout,
                   logs, csvFile, exitCode>>

(***************************************************************************)
(* main, lines 161-184: one pass of the loop over urls.                    *)
(***************************************************************************)
\* FetchError with log.Fatalf where the code has log.Printf and continue
FetchErrorFatal ==
    /\ pc = "loop"
    /\ i <= Len(urls)
    /\ requests' = Append(requests,
            [url |-> RequestURL(urls[i]), ok |-> FALSE, lines |-> <<>>])
    /\ logs' = Append(logs,
            [kind |-> "Error fetching headers", url |-> urls[i]])
    /\ exitCode' = 1
    /\ pc' = "exit"
    /\ UNCHANGED <<flags, fileData, urls, client, i, resultsForCSV, stdout,
                   csvFile>>

\* FetchError that fetches the same entry again
FetchErrorRetry ==
    /\ pc = "loop"
    /\ i <= Len(urls)
    /\ requests' = Append(requests,
            [url |-> RequestURL(urls[i]), ok |-> FALSE, lines |-> <<>>])
    /\ logs' = Append(logs,
            [kind |-> "Error fetching headers", url |-> urls[i]])
    /\ UNCHANGED <<pc, flags, fileData, urls, client, i, resultsForCSV,
                   stdout, csvFile, exitCode>>

\* lines 162-166: client.Get returns an error
FetchError ==
    /\ pc = "loop"
    /\ i <= Len(urls)
    /\ requests' = Append(requests,
            [url |-> RequestURL(urls[i]), ok |-> FALSE, lines |-> <<>>])
    /\ logs' = Append(logs,
            [kind |-> "Error fetching headers", url |-> urls[i]])
    /\ i' = i + 1
    /\ UNCHANGED <<pc, flags, fileData, urls, client, resultsForCSV, stdout,
                   csvFile, exitCode>>

\* lines 171-183: what the pass prints
printed(url, results, missingHeaders) ==
    IF missingOnly
    THEN IF Len(missingHeaders) > 0
         THEN <<[kind |-> "is missing", url |-> url,
                 headers |-> missingHeaders]>>
         ELSE <<>>
    ELSE <<displayResults(url, results)>>

\* lines 162-183: client.Get returns a response
FetchOK(Responses) ==
    /\ pc = "loop"
    /\ i <= Len(urls)
    /\ \E lines \in Responses :
        LET url     == urls[i]
            results == checkHeaders(ResponseHeader(lines))
        IN  /\ requests' = Append(requests,
                    [url |-> RequestURL(url), ok |-> TRUE, lines |-> lines])
            /\ resultsForCSV' = MapPut(resultsForCSV, url, results)
            /\ IF missingOnly
               THEN \E missingHeaders \in missingHeadersOf(results) :
                        stdout' = stdout \o printed(url, results, missingHeaders)
               ELSE stdout' = stdout \o printed(url, results, <<>>)
    /\ i' = i + 1
    /\ UNCHANGED <<pc, flags, fileData, urls, client, logs, csvFile, exitCode>>

\* the loop is over
LoopEnd ==
    /\ pc = "loop"
    /\ i > Len(urls)
    /\ pc' = "export"
    /\ UNCHANGED <<flags, fileData, urls, client, i, resultsForCSV, requests,
                   stdout, logs, csvFile, exitCode>>

(***************************************************************************)
(* main, lines 187-193, and writeResultsToCSV.                             *)
(***************************************************************************)
NoExport ==
    /\ pc = "export"
    /\ outputFile = ""
    /\ exitCode' = 0
    /\ pc' = "exit"
    /\ UNCHANGED <<flags, fileData, urls, client, i, resultsForCSV, requests,
                   stdout, logs, csvFile>>

\* writeResultsToCSV, lines 84-103: the rows written for a map, the data rows
\* in the order in which the loop over the map visits the URLs
csvRowsOf(results, order) ==
    <<csvHeader>> \o [k \in 1..Len(order) |-> csvRow(order[k], results[order[k]])]

\* writeResultsToCSV returns nil
ExportCSV ==
    /\ pc = "export"
    /\ outputFile # ""
    /\ \E order \in Orders(DOMAIN resultsForCSV) :
        csvFile' = [exists |-> TRUE, complete |-> TRUE,
                    rows |-> csvRowsOf(resultsForCSV, order)]
    /\ stdout' = Append(stdout, [kind |-> "Results exported"])
    /\ exitCode' = 0
    /\ pc' = "exit"
    /\ UNCHANGED <<flags, fileData, urls, client, i, resultsForCSV, requests,
                   logs>>

\* os.Create fails: no file, and log.Fatalf
ExportCreateFatal ==
    /\ pc = "export"
    /\ outputFile # ""
    /\ logs' = Append(logs, [kind |-> "Error writing to CSV"])
    /\ exitCode' = 1
    /\ pc' = "exit"
    /\ UNCHANGED <<flags, fileData, urls, client, i, resultsForCSV, requests,
                   stdout, csvFile>>

\* a writer.Write fails: the file was created and holds some part of the
\* rows, which the model leaves open, and log.Fatalf
ExportWriteFatal ==
    /\ pc = "export"
    /\ outputFile # ""
    /\ csvFile' = [exists |-> TRUE, complete |-> FALSE, rows |-> <<>>]
    /\ logs' = Append(logs, [kind |-> "Error writing to CSV"])
    /\ exitCode' = 1
    /\ pc' = "exit"
    /\ UNCHANGED <<flags, fileData, urls, client, i, resultsForCSV, requests,
                   stdout>>

(***************************************************************************)
(* The runs of the whole program.                                          *)
(***************************************************************************)
Next ==
    \/ SkipInput
    \/ ReadURLs(MainFiles)
    \/ ReadURLsFatal
    \/ Usage
    \/ ConfigureClient
    \/ FetchError
    \/ FetchOK(MainResponses)
    \/ LoopEnd
    \/ NoExport
    \/ ExportCSV
    \/ ExportCreateFatal
    \/ ExportWriteFatal

Spec == Init /\ [][Next]_vars

(***************************************************************************)
(* The runs up to the configured client, on every input file of at most    *)
(* MaxData bytes: the flags that play no part before the loop are off.     *)
(***************************************************************************)
InitAssemble ==
    /\ InitWith(SeqUpTo(ArgURLs, MaxArgs))
    /\ ~missingOnly
    /\ ~skipSSL
    /\ outputFile = ""

NextAssemble ==
    \/ SkipInput
    \/ ReadURLs(AllFiles)
    \/ ReadURLsFatal
    \/ Usage
    \/ ConfigureClient

SpecAssemble == InitAssemble /\ [][NextAssemble]_vars

(***************************************************************************)
(* The runs on one positional URL put together from URLPieces, without an  *)
(* input file (and without --skip-ssl and --output, which play no part in  *)
(* the loop), up to the end of the loop.                                   *)
(***************************************************************************)
InitFetch ==
    /\ InitWith({<<url>> : url \in FetchURLs})
    /\ inputFile = ""
    /\ ~skipSSL
    /\ outputFile = ""

NextFetch ==
    \/ SkipInput
    \/ ConfigureClient
    \/ FetchError
    \/ FetchOK(MainResponses)
    \/ LoopEnd

SpecFetch == InitFetch /\ [][NextFetch]_vars

(***************************************************************************)
(* The runs on one positional URL, without an input file and in full mode  *)
(* (and without --skip-ssl and --output), against every response of at     *)
(* most MaxFields header lines, up to the end of the loop.                 *)
(***************************************************************************)
InitHeaders ==
    /\ InitWith({<<url>> : url \in ArgURLs})
    /\ inputFile = ""
    /\ ~missingOnly
    /\ ~skipSSL
    /\ outputFile = ""

NextHeaders ==
    \/ SkipInput
    \/ ConfigureClient
    \/ FetchError
    \/ FetchOK(AllResponses)
    \/ LoopEnd

SpecHeaders == InitHeaders /\ [][NextHeaders]_vars

(***************************************************************************)
(* What the claims speak of.                                               *)
(***************************************************************************)
\* the passes of the loop whose fetch succeeded, and those whose fetch failed
OkIndices == {k \in 1..Len(requests) : requests[k].ok}

FailedIndices == {k \in 1..Len(requests) : ~requests[k].ok}

\* the URLs fetched successfully at least once
FetchedURLs == {urls[k] : k \in OkIndices}

\* the data rows of the CSV file
DataRows == Tail(csvFile.rows)

\* main has left the loop (the client is configured only on the way into it)
LoopOver == pc = "export" \/ (pc = "exit" /\ client.configured)

\* the elements of s whose index is in K, in the order of s
RECURSIVE Pick(_, _, _)
Pick(s, K, k) ==
    IF k > Len(s) THEN <<>>
    ELSE (IF k \in K THEN <<s[k]>> ELSE <<>>) \o Pick(s, K, k + 1)

\* the presence map that belongs to each response of MainResponses, and to
\* the response of pass k of a run of the whole program
ResultsOf == [lines \in MainResponses |-> checkHeaders(ResponseHeader(lines))]

ResultsAt(k) == ResultsOf[requests[k].lines]

\* the names the response of pass k lacks, in the order of requiredHeaders
MissingAt(k) ==
    LET results == ResultsAt(k)
    IN  SelectSeq(requiredHeaders, LAMBDA h : ~results[h])

\* C1: in a written CSV the data rows are in processing order: of two rows,
\* the URL of the earlier one was fetched successfully before the URL of
\* the later one.
C1_RowsInProcessingOrder ==
    csvFile.complete =>
        \A p, q \in 1..Len(DataRows) :
            p < q =>
                \E k1, k2 \in OkIndices :
                    /\ k1 < k2
                    /\ urls[k1] = DataRows[p][1]
                    /\ urls[k2] = DataRows[q][1]

\* every cell after the URL column is "Present" or "Missing"
CellsPresentOrMissing ==
    \A r \in 1..Len(DataRows) :
        /\ Len(DataRows[r]) = 1 + Len(requiredHeaders)
        /\ \A c \in 2..Len(DataRows[r]) : DataRows[r][c] \in {"Present", "Missing"}

\* C2 as stated: a written CSV has one header row and one data row per
\* successful fetch, also when a URL occurs more than once in the list, and
\* every cell after the URL column is "Present" or "Missing".
C2_RowPerSuccessfulFetch ==
    csvFile.complete =>
        /\ Len(csvFile.rows) = Cardinality(OkIndices) + 1
        /\ csvFile.rows[1] = csvHeader
        /\ CellsPresentOrMissing

\* C2 as amended: a written CSV has one header row and one data row per
\* distinct URL string that was fetched successfully at least once, and
\* every cell after the URL column is "Present" or "Missing".
C2_RowPerFetchedURL ==
    csvFile.complete =>
        /\ Len(csvFile.rows) = Cardinality(FetchedURLs) + 1
        /\ csvFile.rows[1] = csvHeader
        /\ {DataRows[r][1] : r \in 1..Len(DataRows)} = FetchedURLs
        /\ CellsPresentOrMissing

\* a CSV was written after a URL that occurs twice was fetched twice
C2_Witness ==
    /\ csvFile.complete
    /\ Len(csvFile.rows) >= 3
    /\ Cardinality(OkIndices) > Cardinality(FetchedURLs)

\* the "is missing" lines of the output
MissingLines == SelectSeq(stdout, LAMBDA e : e.kind = "is missing")

\* the "is missing" lines the passes up to k should have printed
RECURSIVE ExpectedMissingLines(_)
ExpectedMissingLines(k) ==
    IF k = 0 THEN <<>>
    ELSE ExpectedMissingLines(k - 1) \o
            (IF ~requests[k].ok THEN <<>>
             ELSE LET missingHeaders == MissingAt(k)
                  IN  IF missingHeaders = <<>> THEN <<>>
                      ELSE <<[kind |-> "is missing", url |-> urls[k],
                              headers |-> missingHeaders]>>)

\* C3: in missing-only mode a successfully fetched URL with no missing
\* header prints no line, and one with N >= 1 missing headers prints one
\* line naming exactly those headers in the order of requiredHeaders.
C3_MissingLineInRequiredOrder ==
    missingOnly => MissingLines = ExpectedMissingLines(Len(requests))

\* the URLs of the blocks and lines the loop printed
ReportedURLs ==
    {stdout[k].url : k \in {j \in 1..Len(stdout) :
                                stdout[j].kind \in {"results", "is missing"}}}

\* C4 as stated: a URL whose fetch failed is in neither the displayed
\* results nor the CSV rows.
C4_FailedURLAbsent ==
    \A k \in FailedIndices :
        /\ urls[k] \notin ReportedURLs
        /\ urls[k] \notin DOMAIN resultsForCSV
        /\ csvFile.complete =>
                \A r \in 1..Len(DataRows) : DataRows[r][1] # urls[k]

\* a printed block or line, without the order of the names in a line
Unordered(e) ==
    IF e.kind = "is missing"
    THEN [kind |-> e.kind, url |-> e.url, headers |-> Range(e.headers)]
    ELSE e

\* what the successful passes up to k print, the failed ones left out
RECURSIVE ExpectedReport(_)
ExpectedReport(k) ==
    IF k = 0 THEN <<>>
    ELSE ExpectedReport(k - 1) \o
            (IF ~requests[k].ok THEN <<>>
             ELSE IF ~missingOnly THEN <<displayResults(urls[k], ResultsAt(k))>>
             ELSE LET missingHeaders == MissingAt(k)
                  IN  IF missingHeaders = <<>> THEN <<>>
                      ELSE <<[kind |-> "is missing", url |-> urls[k],
                              headers |-> Range(missingHeaders)]>>)

Report ==
    LET shown == SelectSeq(stdout,
                    LAMBDA e : e.kind \in {"results", "is missing"})
    IN  [k \in 1..Len(shown) |-> Unordered(shown[k])]

\* C4 as amended: a failed fetch is logged and adds nothing to the
\* displayed results and the CSV rows, so that these hold what the
\* successful fetches alone produce (a URL none of whose fetches succeeded
\* is absent), and every entry after the failed one is still fetched: the
\* loop ends only when every entry was fetched.
C4_FailedFetchSkipped ==
    /\ pc = "loop" => Len(requests) = i - 1
    /\ LoopOver => Len(requests) = Len(urls)
    /\ DOMAIN resultsForCSV = FetchedURLs
    /\ Report = ExpectedReport(Len(requests))
    /\ SelectSeq(logs, LAMBDA e : e.kind = "Error fetching headers")
            = Pick([k \in 1..Len(requests) |->
                        [kind |-> "Error fetching headers", url |-> urls[k]]],
                   FailedIndices, 1)
    /\ csvFile.complete =>
            {DataRows[r][1] : r \in 1..Len(DataRows)} = FetchedURLs

\* a run in which a fetch failed, a later one succeeded and the CSV was
\* written
C4_Witness ==
    /\ csvFile.complete
    /\ \E k \in FailedIndices : \E m \in OkIndices :
            k < m /\ urls[k] \notin FetchedURLs

\* two header names that differ at most in the case of their letters
EqualFold(a, b) ==
    /\ Len(a) = Len(b)
    /\ \A k \in 1..Len(a) : ToLowerChar(a[k]) = ToLowerChar(b[k])

\* C5: after a successful fetch the presence map has exactly the six
\* required names as keys, each with a boolean, and the value of a name is
\* true exactly when the response has a header line of that name, in any
\* case of its letters and with any value.
C5_PresenceMap ==
    (pc = "loop" /\ i > 1 /\ requests[i - 1].ok) =>
        LET lines   == requests[i - 1].lines
            results == resultsForCSV[urls[i - 1]]
        IN  /\ DOMAIN results = Range(requiredHeaders)
            /\ Cardinality(DOMAIN results) = 6
            /\ \A header \in Range(requiredHeaders) :
                /\ results[header] \in BOOLEAN
                /\ results[header] <=>
                        \E k \in 1..Len(lines) : EqualFold(lines[k].name, header)

\* a response whose only line of a required header is in another case and
\* has an empty value, and the header is found present
C5_Witness ==
    /\ pc = "loop" /\ i > 1 /\ requests[i - 1].ok
    /\ \E k \in 1..Len(requests[i - 1].lines) :
        LET line == requests[i - 1].lines[k]
        IN  /\ line.name \notin Range(requiredHeaders)
            /\ line.value = ""
            /\ \E header \in Range(requiredHeaders) :
                /\ EqualFold(line.name, header)
                /\ resultsForCSV[urls[i - 1]][header]
                /\ \A m \in 1..Len(requests[i - 1].lines) :
                        m # k => ~EqualFold(requests[i - 1].lines[m].name, header)

\* the places of the line feeds of a file, with the places before its first
\* byte and after its last one
Cuts(data) == {0, Len(data) + 1} \cup {k \in 1..Len(data) : data[k] = "\n"}

\* the j-th smallest element of a set of numbers
Nth(S, j) == CHOOSE c \in S : Cardinality({d \in S : d < c}) = j - 1

\* the j-th line of a file
LineAt(data, j) ==
    SubSeq(data, Nth(Cuts(data), j) + 1, Nth(Cuts(data), j + 1) - 1)

\* a line without the white space at its two ends
Stripped(line) ==
    LET black == {k \in 1..Len(line) : ~IsSpace(line[k])}
    IN  IF black = {} THEN <<>>
        ELSE SubSeq(line, Nth(black, 1), Nth(black, Cardinality(black)))

\* the stripped lines of a file that are not empty, in file order
FileURLs(data) ==
    LET kept == {j \in 1..(Cardinality(Cuts(data)) - 1) :
                    Stripped(LineAt(data, j)) # <<>>}
    IN  [r \in 1..Cardinality(kept) |-> Stripped(LineAt(data, Nth(kept, r)))]

\* C6: once the input stage is over, the URL list is the positional URLs in
\* their order, followed by the stripped non-empty lines of the input file
\* in file order (nothing else when no input file was read).
C6_URLList ==
    pc \in {"check", "loop"} =>
        urls = args \o (IF fileData.read THEN FileURLs(fileData.data) ELSE <<>>)

\* a file with a blank line between two lines that carry white space was
\* read after a positional URL
C6_Witness ==
    /\ pc = "loop"
    /\ Len(args) = 1
    /\ fileData.read
    /\ Len(urls) = 3
    /\ \E k \in 1..Len(fileData.data) : fileData.data[k] = " "

\* the input stage is over without a fatal error and left no URL
EmptyList ==
    /\ pc # "input"
    /\ urls = <<>>
    /\ \A k \in 1..Len(logs) : logs[k].kind # "Error reading URLs from file"

\* C7: with an empty combined URL list the program prints the usage text
\* and exits with status 1; no request is issued and no CSV file written.
C7_EmptyListUsage ==
    EmptyList =>
        /\ pc \in {"check", "exit"}
        /\ pc = "exit" => (stdout = <<[kind |-> "Usage"]>> /\ exitCode = 1)
        /\ requests = <<>>
        /\ ~client.configured
        /\ ~csvFile.exists

\* the usage exit after an input file of blank lines, with --output given
C7_Witness ==
    /\ EmptyList
    /\ pc = "exit"
    /\ fileData.read
    /\ outputFile # ""

\* the input file could not be read
ReadFailed ==
    \E k \in 1..Len(logs) : logs[k].kind = "Error reading URLs from file"

\* C8: when the input file cannot be read the program ends at once, with a
\* non-zero status, before any request (also for the positional URLs), and
\* nothing is displayed or exported.
C8_ReadFailureFatal ==
    ReadFailed =>
        /\ pc = "exit"
        /\ exitCode = 1
        /\ requests = <<>>
        /\ ~client.configured
        /\ stdout = <<>>
        /\ ~csvFile.exists

\* the read failed on a run with a positional URL and --output
C8_Witness ==
    /\ ReadFailed
    /\ args # <<>>
    /\ outputFile # ""

\* s is prefix followed by something
StartsWith(s, prefix) ==
    \E rest \in {SubSeq(s, k, Len(s)) : k \in 1..(Len(s) + 1)} :
        s = prefix \o rest

\* C9: a URL that starts with neither "http://" nor "https://" is requested
\* as "http://" followed by it, and a URL that starts with one of the two is
\* requested as it is.
C9_RequestURL ==
    \A k \in 1..Len(requests) :
        IF StartsWith(urls[k], HttpPrefix) \/ StartsWith(urls[k], HttpsPrefix)
        THEN requests[k].url = urls[k]
        ELSE requests[k].url = HttpPrefix \o urls[k]

\* a URL that starts with "http" and yet with neither prefix was requested
\* with "http://" in front
C9_Witness ==
    /\ Len(requests) = 1
    /\ StartsWith(urls[1], <<"h", "t", "t", "p">>)
    /\ requests[1].url = HttpPrefix \o urls[1]

\* C10: one client.Get per entry of the URL list, in list order and with no
\* second attempt: during the loop the passes so far made one request each,
\* and the loop is over exactly when every entry has had its one request.
C10_OneGetPerEntry ==
    /\ Len(requests) <= Len(urls)
    /\ \A k \in 1..Len(requests) : requests[k].url = RequestURL(urls[k])
    /\ pc = "loop" => (Len(requests) = i - 1 /\ i <= Len(urls) + 1)
    /\ LoopOver => Len(requests) = Len(urls)
    /\ ~client.configured => requests = <<>>

\* the loop is over after three entries, with failures and successes mixed
C10_Witness ==
    /\ LoopOver
    /\ Len(urls) = 3
    /\ OkIndices # {}
    /\ FailedIndices # {}

=============================================================================
